---- MODULE Spec2Model ----
(***************************************************************************)
(* The retrying request executor of package httpx (client.Do, shouldRetry, *)
(* waitBeforeRetry) on top of the logging round tripper of package logger. *)
(***************************************************************************)
EXTENDS Integers, Sequences, FiniteSets, TLC

(***************************************************************************)
(* Optional values: Go's nil is the empty tuple, a present value x is <<x>>.*)
(***************************************************************************)
Nil == <<>>

Some(x) == <<x>>

(***************************************************************************)
(* int64 / time.Duration.  A value is kept as its eight two's-complement   *)
(* bytes, least significant first, so that Go's wrapping arithmetic is     *)
(* computed exactly.  A Duration counts nanoseconds.                       *)
(***************************************************************************)
Limb == 2^8

Limbs == 1..8

Int64 == [Limbs -> 0..(Limb - 1)]

\* The int64 of a natural number below 2^31.
FromNat(n) ==
    [i \in Limbs |-> IF i <= 4 THEN (n \div (Limb^(i - 1))) % Limb ELSE 0]

Zero64 == FromNat(0)

\* Sign bit of an int64.
IsNeg(a) == a[8] >= Limb \div 2

RECURSIVE ULessFrom(_, _, _)
\* Unsigned comparison a < b of the limbs i, i-1, ..., 1.
ULessFrom(a, b, i) ==
    IF i = 0 THEN FALSE
    ELSE IF a[i] # b[i] THEN a[i] < b[i]
    ELSE ULessFrom(a, b, i - 1)

\* Go's a < b on int64.
Less64(a, b) ==
    IF IsNeg(a) # IsNeg(b) THEN IsNeg(a) ELSE ULessFrom(a, b, 8)

\* Go's a > b on int64.
Greater64(a, b) == Less64(b, a)

RECURSIVE ColSum(_, _, _, _)
\* Sum of a[i+1] * b[k-i+1] for i = 0..j: column k of the schoolbook product.
ColSum(a, b, k, j) ==
    IF j < 0 THEN 0
    ELSE a[j + 1] * b[k - j + 1] + ColSum(a, b, k, j - 1)

RECURSIVE ColCarry(_, _, _)
\* Carry into column k of the product.
ColCarry(a, b, k) ==
    IF k = 0 THEN 0
    ELSE (ColSum(a, b, k - 1, k - 1) + ColCarry(a, b, k - 1)) \div Limb

\* Go's a * b on int64: the low 64 bits of the product.
Mul64(a, b) ==
    [i \in Limbs |-> (ColSum(a, b, i - 1, i - 1) + ColCarry(a, b, i - 1)) % Limb]

\* Go's int64(1) << s for an unsigned shift count s: 0 once s >= 64.
Shl1(s) ==
    [i \in Limbs |-> IF s < 64 /\ s \div 8 = i - 1 THEN 2^(s % 8) ELSE 0]

\* time.Millisecond and time.Second, in nanoseconds.
Millisecond == FromNat(1000000)

Second == FromNat(1000000000)

Ms(n) == Mul64(FromNat(n), Millisecond)

Sec(n) == Mul64(FromNat(n), Second)

(***************************************************************************)
(* Defaults of the client (httpx.go, const block).                         *)
(***************************************************************************)
defaultRetries == 1

defaultRetryDelay == Ms(100)

defaultMaxRetryWait == Sec(5)

(***************************************************************************)
(* client.shouldRetry                                                      *)
(***************************************************************************)
StatusTooManyRequests == 429

StatusRequestTimeout == 408

\* shouldRetry with the 5xx range starting one too late.
shouldRetryLate5xx(statusCode) ==
    \/ statusCode = StatusTooManyRequests
    \/ statusCode = StatusRequestTimeout
    \/ (statusCode > 500 /\ statusCode < 600)

\* shouldRetry taking every 4xx for retry-worthy.
shouldRetryAny4xx(statusCode) == statusCode >= 400 /\ statusCode < 600

shouldRetry(statusCode) ==
    \/ statusCode = StatusTooManyRequests
    \/ statusCode = StatusRequestTimeout
    \/ (statusCode >= 500 /\ statusCode < 600)

(***************************************************************************)
(* client.waitBeforeRetry: the delay handed to time.After.                 *)
(***************************************************************************)
\* waitBeforeRetry without the cap.
backoffDelayNoCap(RetryDelay, MaxRetryWait, attempt) ==
    Mul64(RetryDelay, Shl1(attempt - 1))

backoffDelay(RetryDelay, MaxRetryWait, attempt) ==
    LET delay == Mul64(RetryDelay, Shl1(attempt - 1))
    IN  IF Greater64(delay, MaxRetryWait) THEN MaxRetryWait ELSE delay

(***************************************************************************)
(* Bounds of the model.                                                    *)
(***************************************************************************)
\* Largest value given to WithRetries.
MaxRetries == 3

\* Longest request body the caller supplies.
MaxBodyLen == 2

\* Largest status code handed to shouldRetry on its own.
MaxStatus == 700

\* Largest attempt number handed to waitBeforeRetry on its own.
MaxAttemptNo == 70

(***************************************************************************)
(* Inputs.                                                                 *)
(***************************************************************************)
\* Values given to WithRetries (any int is accepted), the default included.
RetriesValues == {-1} \cup (0..MaxRetries)

\* (RetryDelay, MaxRetryWait) pairs: the defaults, and the values used by
\* the tests and the README.
DelayConfigs ==
    { <<defaultRetryDelay, defaultMaxRetryWait>>,
      <<Ms(200), Ms(300)>> }

\* Delays handed to waitBeforeRetry on its own: the default, the tests'
\* 10ms, the README's 200ms; caps: the tests' 300ms and 500ms, the
\* default, the README's 10s.
RetryDelays == {Ms(10), defaultRetryDelay, Ms(200)}

MaxRetryWaits == {Ms(300), Ms(500), defaultMaxRetryWait, Sec(10)}

\* Status codes the transport answers with during an execution.
Statuses == {200, 404, 408, 429, 500}

Byte == {97, 98}

RECURSIVE SeqsUpTo(_)
\* All byte strings of length <= n.
SeqsUpTo(n) ==
    IF n = 0 THEN {<<>>}
    ELSE LET shorter == SeqsUpTo(n - 1)
         IN  shorter \cup {Append(s, b) : s \in {t \in shorter : Len(t) = n - 1}, b \in Byte}

Bodies == SeqsUpTo(MaxBodyLen)

\* The two cancellation signals around one call of Do: the ctx argument and
\* the context the caller's request carries.
Contexts == {"ctx", "reqctx"}

(***************************************************************************)
(* State.                                                                  *)
(***************************************************************************)
VARIABLES
    c,           \* the client: [Retries, RetryDelay, MaxRetryWait]
    ctxArg,      \* the ctx argument of Do: Nil or Some("ctx")
    callerReq,   \* the caller's *http.Request: [Body, ctx]
    orig,        \* the caller-supplied body stream
    cancelled,   \* the contexts whose Done channel is closed
    pc,          \* position of Do: "idle", "top", "call", "wait", "done"
    ctx,         \* Do's local ctx after lines 91-93
    req,         \* Do's local req: [Body, ctx, own]
    bodyBytes,   \* Do's local bodyBytes
    lastErr,     \* Do's local lastErr
    attempt,     \* the loop variable
    outcomes,    \* what each c.HttpClient.Do call returned, in order
    seen,        \* the request body each transport call was given, in order
    callCtxDone, \* whether req's context was already done when the call began
    waits,       \* the backoff waits, in order: [delay, woke]
    ret,         \* what Do returned: Nil, or Some([resp, err])
    cancelAt,    \* where Do was when its ctx was cancelled: Nil or Some(..)
    probe,       \* argument and result of a function applied on its own
    rt,          \* one LoggingRoundTripper.RoundTrip call on its own
    execs        \* the locals of each of several concurrent calls of Do

vars ==
    << c, ctxArg, callerReq, orig, cancelled, pc, ctx, req, bodyBytes, lastErr,
       attempt, outcomes, seen, callCtxDone, waits, ret, cancelAt, probe, rt,
       execs >>

execVars ==
    << c, ctxArg, callerReq, orig, cancelled, pc, ctx, req, bodyBytes, lastErr,
       attempt, outcomes, seen, callCtxDone, waits, ret, cancelAt >>

(***************************************************************************)
(* Body streams.  A stream handle is [kind, data, off]: "nil" is no body,  *)
(* "orig" is the caller-supplied stream (its state is the variable orig),  *)
(* "buf" is io.NopCloser(bytes.NewReader(data)) read up to offset off.     *)
(***************************************************************************)
NoBody == [kind |-> "nil", data |-> <<>>, off |-> 0]

OrigBody == [kind |-> "orig", data |-> <<>>, off |-> 0]

\* io.NopCloser(bytes.NewReader(b))
NewReader(b) == [kind |-> "buf", data |-> b, off |-> 0]

\* The bytes a full read of stream s yields.
Remaining(s, o) ==
    IF s.kind = "buf" THEN SubSeq(s.data, s.off + 1, Len(s.data))
    ELSE SubSeq(o.data, o.off + 1, Len(o.data))

\* Stream s after a full read.
Drained(s) == IF s.kind = "buf" THEN [s EXCEPT !.off = Len(s.data)] ELSE s

(***************************************************************************)
(* logger.LoggingRoundTripper.  Its functions take the stream handle s of  *)
(* a body and the state o of the source stream behind an "orig" handle.    *)
(***************************************************************************)
defaultMaxBodySize == 5 * 1024 * 1024

\* NewLoggingRoundTripper as New calls it: logger.WithBodyLogging(false),
\* the default maxBodySize.
newLogger == [logBodies |-> FALSE, maxBodySize |-> defaultMaxBodySize]

\* A log record; body is Nil or Some(the logged bytes).
Event(level, msg, body) == [level |-> level, msg |-> msg, body |-> body]

\* io.ReadAll(body) returns an error.
readFails(s, o) == s.kind = "orig" /\ o.fails

\* The source stream after io.ReadAll and Close.
afterRead(s, o) ==
    IF s.kind = "orig"
    THEN [o EXCEPT !.off = Len(o.data), !.reads = @ + 1, !.closes = @ + 1]
    ELSE o

\* readBody handing back a reader over the truncated logBytes.
readBodyTruncating(s, o, limit) ==
    LET data == Remaining(s, o)
        logBytes == IF Len(data) > limit THEN SubSeq(data, 1, limit) ELSE data
    IN  IF readFails(s, o)
        THEN [logBytes |-> <<>>, body |-> NewReader(<<>>), err |-> TRUE]
        ELSE [logBytes |-> logBytes, body |-> NewReader(logBytes), err |-> FALSE]

\* readBody without lines 125-127: everything read is logged.
readBodyNoLimit(s, o, limit) ==
    LET data == Remaining(s, o)
    IN  IF readFails(s, o)
        THEN [logBytes |-> <<>>, body |-> NewReader(<<>>), err |-> TRUE]
        ELSE [logBytes |-> data, body |-> NewReader(data), err |-> FALSE]

\* logger.readBody: (logBytes, new reader, err).
readBody(s, o, limit) ==
    LET data == Remaining(s, o)
        logBytes == IF Len(data) > limit THEN SubSeq(data, 1, limit) ELSE data
    IN  IF readFails(s, o)
        THEN [logBytes |-> <<>>, body |-> NewReader(<<>>), err |-> TRUE]
        ELSE [logBytes |-> logBytes, body |-> NewReader(data), err |-> FALSE]

\* logRequest with line 74 after the error return: a failed read leaves
\* req.Body as it was.
logRequestKeepsOnError(l, s, o) ==
    IF ~l.logBodies \/ s.kind = "nil"
    THEN [body |-> s, events |-> <<>>, src |-> o]
    ELSE LET r == readBody(s, o, l.maxBodySize)
         IN  [body |-> IF r.err THEN s ELSE r.body,
              events |-> IF r.err
                         THEN <<Event("WARN", "failed to read request body", Nil)>>
                         ELSE <<Event("DEBUG", "http request body", Some(r.logBytes))>>,
              src |-> afterRead(s, o)]

\* logRequest without the l.logBodies test of line 69.
logRequestAlways(l, s, o) ==
    IF s.kind = "nil"
    THEN [body |-> s, events |-> <<>>, src |-> o]
    ELSE LET r == readBody(s, o, l.maxBodySize)
         IN  [body |-> r.body,
              events |-> IF r.err
                         THEN <<Event("WARN", "failed to read request body", Nil)>>
                         ELSE <<Event("DEBUG", "http request body", Some(r.logBytes))>>,
              src |-> afterRead(s, o)]

\* LoggingRoundTripper.logRequest: the Body the request carries afterwards,
\* the records logged, the source stream afterwards.
logRequest(l, s, o) ==
    IF ~l.logBodies \/ s.kind = "nil"
    THEN [body |-> s, events |-> <<>>, src |-> o]
    ELSE LET r == readBody(s, o, l.maxBodySize)
         IN  [body |-> r.body,
              events |-> IF r.err
                         THEN <<Event("WARN", "failed to read request body", Nil)>>
                         ELSE <<Event("DEBUG", "http request body", Some(r.logBytes))>>,
              src |-> afterRead(s, o)]

\* logResponse logging the completion in the body branch and again after it.
logResponseCompletedTwice(l, s, o) ==
    LET completed == Event("INFO", "http request completed", Nil)
    IN  IF l.logBodies /\ s.kind # "nil"
        THEN LET r == readBody(s, o, l.maxBodySize)
             IN  [body |-> r.body,
                  events |-> <<IF r.err
                               THEN Event("WARN", "failed to read response body", Nil)
                               ELSE Event("DEBUG", "http response body", Some(r.logBytes)),
                               completed, completed>>,
                  src |-> afterRead(s, o)]
        ELSE [body |-> s, events |-> <<completed>>, src |-> o]

\* LoggingRoundTripper.logResponse: the Body the response carries
\* afterwards, the records logged, the source stream afterwards.
logResponse(l, s, o) ==
    LET completed == Event("INFO", "http request completed", Nil)
    IN  IF l.logBodies /\ s.kind # "nil"
        THEN LET r == readBody(s, o, l.maxBodySize)
             IN  [body |-> r.body,
                  events |-> <<IF r.err
                               THEN Event("WARN", "failed to read response body", Nil)
                               ELSE Event("DEBUG", "http response body", Some(r.logBytes)),
                               completed>>,
                  src |-> afterRead(s, o)]
        ELSE [body |-> s, events |-> <<completed>>, src |-> o]

\* LoggingRoundTripper.logRequestError
logRequestError == Event("ERROR", "http request failed", Nil)

(***************************************************************************)
(* client.Do, piece by piece.                                              *)
(***************************************************************************)
\* Lines 91-93 taking context.Background() for a nil ctx.
effectiveCtxBackground(arg, r) == IF arg = Nil THEN "background" ELSE arg[1]

\* Lines 91-93: the context the execution is bound to.
effectiveCtx(arg, r) == IF arg = Nil THEN r.ctx ELSE arg[1]

\* Do's parameter req on entry: a pointer to the caller's request (own is
\* FALSE while req points to the caller's object, TRUE once it points to
\* a copy private to Do).
pointerTo(creq) == [Body |-> creq.Body, ctx |-> creq.ctx, own |-> FALSE]

\* The caller's request after Do wrote the fields of r through req.
callerSees(creq, r) ==
    IF r.own THEN creq ELSE [Body |-> r.Body, ctx |-> r.ctx]

\* Line 94 binding ctx in place, on the object req points to.
withContextInPlace(r, x) == [r EXCEPT !.ctx = x]

\* Do without line 94: the request keeps its own context.
withContextUnbound(r, x) == r

\* Line 94: req.WithContext(ctx), a shallow copy bound to ctx.
withContext(r, x) == [r EXCEPT !.ctx = x, !.own = TRUE]

\* Lines 98-100 testing len(bodyBytes) > 0 instead of bodyBytes != nil.
restoreBodyIfNonEmpty(r, b) ==
    IF b # Nil /\ b[1] # <<>> THEN [r EXCEPT !.Body = NewReader(b[1])] ELSE r

\* Do without lines 98-100: the body is never re-attached.
restoreBodyNever(r, b) == r

\* Lines 98-100: the Body of req at the start of an attempt.
restoreBody(r, b) ==
    IF b # Nil THEN [r EXCEPT !.Body = NewReader(b[1])] ELSE r

\* Lines 116 and 146: the error of an execution whose last failure is e.
failedAfter(n, e) ==
    [resp |-> Nil, err |-> Some([msg |-> "request failed after", attempts |-> n, cause |-> e])]

\* Line 148 returning nil, nil.
failedUnknownNilNil(n) == [resp |-> Nil, err |-> Nil]

\* Line 148.
failedUnknown(n) ==
    [resp |-> Nil, err |-> Some([msg |-> "unknown error", attempts |-> n, cause |-> Nil])]

\* Line 85.
failedBodyRead ==
    [resp |-> Nil, err |-> Some([msg |-> "failed to read request body", attempts |-> 0, cause |-> Some(0)])]

\* Line 84 ignored: a failed read of the body is not noticed.
bodyReadFailsIgnored(r, o) == FALSE

\* Lines 82-84: req carries a body and io.ReadAll of it returns an error.
bodyReadFails(r, o) == r.Body.kind # "nil" /\ o.fails

\* Line 105 keeping the first error: lastErr is set only while it is nil.
recordErrFirst(prev, k) == IF prev = Nil THEN Some(k) ELSE prev

\* Line 105: lastErr = err, the error of call k.
recordErr(prev, k) == Some(k)

\* Line 127 left out: the retried response is dropped unclosed.
closeRetriedNever(o) == o

\* Line 127: resp.Body.Close() on a response that is retried.
closeRetried(o) == [o EXCEPT !.closed = TRUE]

\* Line 141 after a deferred resp.Body.Close().
returnedRespClosed(o) == [o EXCEPT !.closed = TRUE]

\* Line 141: the response handed to the caller, its body untouched.
returnedResp(o) == o

\* Line 141 preceded by the test of line 145: a response is returned only
\* if no earlier attempt failed.
succeededUnlessFailedBefore(k) ==
    IF lastErr # Nil THEN failedAfter(c.Retries, lastErr)
    ELSE [resp |-> Some(k), err |-> Nil]

\* Line 141: the response of call k is returned.
succeeded(k) == [resp |-> Some(k), err |-> Nil]

\* Line 115 with attempt >= c.Retries - 1: Do gives up one attempt early.
lastAttemptEarly(a, retries) == a >= retries - 1

\* Do without lines 115-117: a failed attempt is always followed by a wait.
lastAttemptNever(a, retries) == FALSE

\* Line 115: a failed attempt is the last one.
lastAttempt(a, retries) == a >= retries

\* Line 125 with attempt <= c.Retries: the last response is retried too.
retryResponseOffByOne(status, a, retries) == shouldRetry(status) /\ a <= retries

\* Line 125 without attempt < c.Retries: every retry-eligible response is
\* retried.
retryResponseIgnoringAttempt(status, a, retries) == shouldRetry(status)

\* Line 125 without the status check.
retryResponseAnyStatus(status, a, retries) == a < retries

\* Line 125: a response is retried.
retryResponse(status, a, retries) == shouldRetry(status) /\ a < retries

\* Lines 165-178: waitBeforeRetry arms time.After(delay) and selects.
startWait(cl, a) ==
    [delay |-> backoffDelay(cl.RetryDelay, cl.MaxRetryWait, a), woke |-> "pending"]

\* Line 96 without attempt++: the loop variable stays where it is.
nextAttemptStuck(a) == a

\* Line 96 with attempt += 2.
nextAttemptSkips(a) == a + 2

\* Line 96: attempt++.
nextAttempt(a) == a + 1

\* A select with a default case: waitBeforeRetry returns while the timer
\* is still pending.
endWaitNonBlocking(ws, case) == ws

\* The select of waitBeforeRetry returned through the given case.
endWait(ws, case) == [ws EXCEPT ![Len(ws)].woke = case]

\* What c.HttpClient.Do can return: http.DefaultTransport answers a request
\* whose context is already done with that context's error; otherwise it
\* returns an error (network failure, timeout, cancellation) or a response.
TransportErr == [err |-> TRUE, status |-> 0, closed |-> FALSE]

TransportResp(status) == [err |-> FALSE, status |-> status, closed |-> FALSE]

TransportOutcomes(ctxDone) ==
    IF ctxDone THEN {TransportErr}
    ELSE {TransportErr} \cup {TransportResp(st) : st \in Statuses}

IdleProbe == [fn |-> "none", arg |-> <<>>, out |-> <<>>]

\* The state in which Do is called.
ExecInit ==
    /\ \E n \in RetriesValues, d \in DelayConfigs :
           c = [Retries |-> n, RetryDelay |-> d[1], MaxRetryWait |-> d[2]]
    /\ ctxArg \in {Nil, Some("ctx")}
    /\ \/ /\ callerReq = [Body |-> NoBody, ctx |-> "reqctx"]
          /\ orig = [present |-> FALSE, data |-> <<>>, fails |-> FALSE,
                     off |-> 0, reads |-> 0, closes |-> 0]
       \/ /\ callerReq = [Body |-> OrigBody, ctx |-> "reqctx"]
          /\ \E b \in Bodies, f \in BOOLEAN :
                 orig = [present |-> TRUE, data |-> b, fails |-> f,
                         off |-> 0, reads |-> 0, closes |-> 0]
    /\ cancelled = {}
    /\ pc = "idle"
    /\ ctx = Nil
    /\ req = pointerTo(callerReq)
    /\ bodyBytes = Nil
    /\ lastErr = Nil
    /\ attempt = 0
    /\ outcomes = <<>>
    /\ seen = <<>>
    /\ callCtxDone = FALSE
    /\ waits = <<>>
    /\ ret = Nil
    /\ cancelAt = Nil

\* No round trip is being followed on its own.
IdleRT == [pc |-> "off"]

\* No concurrent calls are being followed.
NoExecs == <<>>

Init == ExecInit /\ probe = IdleProbe /\ rt = IdleRT /\ execs = NoExecs

\* Lines 78-96: buffer the body, bind the context, enter the loop.
DoStart ==
    /\ pc = "idle"
    /\ IF bodyReadFails(req, orig)
       THEN /\ orig' = [orig EXCEPT !.reads = @ + 1]
            /\ lastErr' = Some(0)
            /\ ret' = Some(failedBodyRead)
            /\ pc' = "done"
            /\ UNCHANGED << bodyBytes, ctx, req, attempt, callerReq >>
       ELSE /\ IF req.Body.kind # "nil"
               THEN /\ bodyBytes' = Some(Remaining(req.Body, orig))
                    /\ orig' = [orig EXCEPT !.off = Len(orig.data),
                                            !.reads = @ + 1, !.closes = @ + 1]
               ELSE UNCHANGED << bodyBytes, orig >>
            /\ ctx' = Some(effectiveCtx(ctxArg, req))
            /\ req' = withContext(req, effectiveCtx(ctxArg, req))
            /\ callerReq' = callerSees(callerReq, req')
            /\ attempt' = 1
            /\ pc' = "top"
            /\ UNCHANGED << lastErr, ret >>
    /\ UNCHANGED << c, ctxArg, cancelled, outcomes, seen,
                    callCtxDone, waits, cancelAt, probe, rt, execs >>

\* Lines 96-102: an attempt begins; the round tripper hands req to the
\* transport, which reads the body req carries.
Invoke ==
    /\ pc = "top"
    /\ attempt <= c.Retries
    /\ LET r == restoreBody(req, bodyBytes)
           b == logRequest(newLogger, r.Body, orig).body
       IN  /\ seen' = Append(seen, IF b.kind = "nil" THEN Nil ELSE Some(Remaining(b, orig)))
           /\ req' = [r EXCEPT !.Body = Drained(b)]
           /\ callerReq' = callerSees(callerReq, req')
           /\ callCtxDone' = (r.ctx \in cancelled)
           /\ orig' = IF b.kind = "orig"
                      THEN [orig EXCEPT !.off = Len(orig.data), !.reads = @ + 1]
                      ELSE orig
    /\ pc' = "call"
    /\ UNCHANGED << c, ctxArg, cancelled, ctx, bodyBytes,
                    lastErr, attempt, outcomes, waits, ret, cancelAt, probe, rt, execs >>

\* Lines 104-122: the call returned an error.
TransportError ==
    /\ pc = "call"
    /\ TransportErr \in TransportOutcomes(callCtxDone)
    /\ outcomes' = Append(outcomes, TransportErr)
    /\ lastErr' = recordErr(lastErr, Len(outcomes) + 1)
    /\ IF lastAttempt(attempt, c.Retries)
       THEN /\ ret' = Some(failedAfter(c.Retries, lastErr'))
            /\ pc' = "done"
            /\ UNCHANGED waits
       ELSE /\ waits' = Append(waits, startWait(c, attempt))
            /\ pc' = "wait"
            /\ UNCHANGED ret
    /\ UNCHANGED << c, ctxArg, callerReq, orig, cancelled, ctx, req, bodyBytes,
                    attempt, seen, callCtxDone, cancelAt, probe, rt, execs >>

\* Lines 124-141: the call returned a response.
TransportResponse ==
    /\ pc = "call"
    /\ \E o \in TransportOutcomes(callCtxDone) :
        /\ ~o.err
        /\ IF retryResponse(o.status, attempt, c.Retries)
           THEN /\ outcomes' = Append(outcomes, closeRetried(o))
                /\ waits' = Append(waits, startWait(c, attempt))
                /\ pc' = "wait"
                /\ UNCHANGED ret
           ELSE /\ outcomes' = Append(outcomes, returnedResp(o))
                /\ ret' = Some(succeeded(Len(outcomes) + 1))
                /\ pc' = "done"
                /\ UNCHANGED waits
    /\ UNCHANGED << c, ctxArg, callerReq, orig, cancelled, ctx, req, bodyBytes,
                    lastErr, attempt, seen, callCtxDone, cancelAt, probe, rt, execs >>

\* Lines 177-179 and 121/137: the timer fired; the loop goes on.
WaitElapsed ==
    /\ pc = "wait"
    /\ waits' = endWait(waits, "timer")
    /\ attempt' = nextAttempt(attempt)
    /\ pc' = "top"
    /\ UNCHANGED << c, ctxArg, callerReq, orig, cancelled, ctx, req, bodyBytes,
                    lastErr, outcomes, seen, callCtxDone, ret, cancelAt, probe, rt, execs >>

\* Lines 180-183 and 121/137: ctx.Done() was ready; waitBeforeRetry
\* returns and the loop goes on.
WaitCancelled ==
    /\ pc = "wait"
    /\ ctx[1] \in cancelled
    /\ waits' = endWait(waits, "ctx")
    /\ attempt' = nextAttempt(attempt)
    /\ pc' = "top"
    /\ UNCHANGED << c, ctxArg, callerReq, orig, cancelled, ctx, req, bodyBytes,
                    lastErr, outcomes, seen, callCtxDone, ret, cancelAt, probe, rt, execs >>

\* Lines 96 and 144-148: the loop condition fails.
LoopExit ==
    /\ pc = "top"
    /\ ~(attempt <= c.Retries)
    /\ ret' = Some(IF lastErr # Nil THEN failedAfter(c.Retries, lastErr)
                   ELSE failedUnknown(c.Retries))
    /\ pc' = "done"
    /\ UNCHANGED << c, ctxArg, callerReq, orig, cancelled, ctx, req, bodyBytes,
                    lastErr, attempt, outcomes, seen, callCtxDone, waits,
                    cancelAt, probe, rt, execs >>

\* The caller cancels a context (or its deadline passes) while Do runs.
Cancel(x) ==
    /\ pc # "done"
    /\ x \notin cancelled
    /\ x = "ctx" => ctxArg # Nil
    /\ cancelled' = cancelled \cup {x}
    /\ cancelAt' =
           IF x = effectiveCtx(ctxArg, callerReq)
           THEN Some([pc |-> pc, attempt |-> attempt, calls |-> Len(seen)])
           ELSE cancelAt
    /\ UNCHANGED << c, ctxArg, callerReq, orig, pc, ctx, req, bodyBytes,
                    lastErr, attempt, outcomes, seen, callCtxDone, waits, ret,
                    probe, rt, execs >>

Next ==
    \/ DoStart
    \/ Invoke
    \/ TransportError
    \/ TransportResponse
    \/ WaitCancelled
    \/ WaitElapsed
    \/ LoopExit
    \/ \E x \in Contexts : Cancel(x)

Spec == Init /\ [][Next]_vars

\* A step of Do itself: the control flow goes on, the transport call
\* returns, the select of waitBeforeRetry returns.
DoStep ==
    \/ DoStart
    \/ Invoke
    \/ TransportError
    \/ TransportResponse
    \/ WaitCancelled
    \/ WaitElapsed
    \/ LoopExit

\* An execution of Do whose transport calls all return and whose timer
\* fires (time.After of a finite delay).
SpecLive == Spec /\ WF_vars(DoStep)

(***************************************************************************)
(* shouldRetry and waitBeforeRetry's delay applied on their own, over      *)
(* ranges of arguments an execution only reaches after many attempts.      *)
(* The client stands by, freshly built by New with no option.              *)
(***************************************************************************)
Parked ==
    /\ c = [Retries |-> defaultRetries, RetryDelay |-> defaultRetryDelay,
            MaxRetryWait |-> defaultMaxRetryWait]
    /\ ctxArg = Some("ctx")
    /\ callerReq = [Body |-> NoBody, ctx |-> "reqctx"]
    /\ orig = [present |-> FALSE, data |-> <<>>, fails |-> FALSE,
               off |-> 0, reads |-> 0, closes |-> 0]
    /\ cancelled = {}
    /\ pc = "idle"
    /\ ctx = Nil
    /\ req = pointerTo(callerReq)
    /\ bodyBytes = Nil
    /\ lastErr = Nil
    /\ attempt = 0
    /\ outcomes = <<>>
    /\ seen = <<>>
    /\ callCtxDone = FALSE
    /\ waits = <<>>
    /\ ret = Nil
    /\ cancelAt = Nil

InitShouldRetry ==
    /\ Parked
    /\ rt = IdleRT
    /\ execs = NoExecs
    /\ \E st \in 0..MaxStatus :
           probe = [fn |-> "shouldRetry", arg |-> <<st>>, out |-> <<>>]

ApplyShouldRetry ==
    /\ probe.fn = "shouldRetry"
    /\ probe.out = <<>>
    /\ probe' = [probe EXCEPT !.out = <<shouldRetry(probe.arg[1])>>]
    /\ UNCHANGED << execVars, rt, execs >>

SpecShouldRetry == InitShouldRetry /\ [][ApplyShouldRetry]_vars

InitBackoff ==
    /\ Parked
    /\ rt = IdleRT
    /\ execs = NoExecs
    /\ \E d \in RetryDelays, m \in MaxRetryWaits, a \in 1..MaxAttemptNo :
           probe = [fn |-> "backoffDelay", arg |-> <<d, m, a>>, out |-> <<>>]

ApplyBackoff ==
    /\ probe.fn = "backoffDelay"
    /\ probe.out = <<>>
    /\ probe' = [probe EXCEPT
                   !.out = <<backoffDelay(probe.arg[1], probe.arg[2], probe.arg[3])>>]
    /\ UNCHANGED << execVars, rt, execs >>

SpecBackoff == InitBackoff /\ [][ApplyBackoff]_vars

(***************************************************************************)
(* One LoggingRoundTripper.RoundTrip call on its own, with body logging    *)
(* on or off, over a transport that fails or answers.                      *)
(***************************************************************************)
\* Values given to WithMaxBodySize, the default included.
MaxBodySizes == {0, 1, defaultMaxBodySize}

\* Status codes the transport answers with under the round tripper.
LoggedStatuses == {200, 500}

\* A body stream as its owner hands it over: absent, or holding data and
\* ending in io.EOF or, if fails, in a read error after data.
NoSource ==
    [present |-> FALSE, data |-> <<>>, fails |-> FALSE,
     off |-> 0, reads |-> 0, closes |-> 0]

Sources ==
    {NoSource} \cup
    { [present |-> TRUE, data |-> b, fails |-> f, off |-> 0, reads |-> 0, closes |-> 0] :
          b \in Bodies, f \in BOOLEAN }

\* The errors l.next.RoundTrip returns.
NextErrors ==
    { [text |-> t, wraps |-> Nil] : t \in {"connection refused", "timeout"} }

\* RoundTrip returning a new error that wraps the transport's.
roundTripFailedWrapped(e) ==
    [resp |-> FALSE, err |-> Some([text |-> "round trip failed", wraps |-> Some(e)])]

\* RoundTrip line 60: return nil, err.
roundTripFailed(e) == [resp |-> FALSE, err |-> Some(e)]

\* RoundTrip line 65: return resp, nil.
roundTripAnswered == [resp |-> TRUE, err |-> Nil]

HandleOf(src) == IF src.present THEN OrigBody ELSE NoBody

\* What a full read of the body behind handle s yields.
ReadOf(s, o) ==
    IF s.kind = "nil" THEN Nil
    ELSE Some([data |-> Remaining(s, o), err |-> readFails(s, o)])

InitLogger ==
    /\ Parked
    /\ probe = IdleProbe
    /\ execs = NoExecs
    /\ \E lb \in BOOLEAN, mx \in MaxBodySizes, src \in Sources :
           rt = [pc |-> "idle",
                 l |-> [logBodies |-> lb, maxBodySize |-> mx],
                 reqBody |-> HandleOf(src), reqSrc |-> src,
                 given |-> Nil, nextCalls |-> 0, nextErr |-> Nil,
                 status |-> 0, respBody |-> NoBody, respSrc |-> NoSource,
                 events |-> <<>>, result |-> Nil]

\* RoundTrip lines 50-55: logRequest, then req is handed to l.next.
RTBegin ==
    /\ rt.pc = "idle"
    /\ LET lr == logRequest(rt.l, rt.reqBody, rt.reqSrc)
       IN  rt' = [rt EXCEPT !.pc = "next",
                            !.reqBody = lr.body,
                            !.reqSrc = lr.src,
                            !.events = @ \o lr.events,
                            !.given = ReadOf(lr.body, lr.src),
                            !.nextCalls = @ + 1]
    /\ UNCHANGED << execVars, probe, execs >>

\* RoundTrip lines 55-61: l.next.RoundTrip returned an error.
RTNextError ==
    /\ rt.pc = "next"
    /\ \E e \in NextErrors :
           rt' = [rt EXCEPT !.pc = "done",
                            !.nextErr = Some(e),
                            !.events = Append(@, logRequestError),
                            !.result = Some(roundTripFailed(e))]
    /\ UNCHANGED << execVars, probe, execs >>

\* RoundTrip lines 55-65: l.next.RoundTrip returned a response.
RTNextResponse ==
    /\ rt.pc = "next"
    /\ \E st \in LoggedStatuses, src \in Sources :
           LET lp == logResponse(rt.l, HandleOf(src), src)
           IN  rt' = [rt EXCEPT !.pc = "done",
                                !.status = st,
                                !.respBody = lp.body,
                                !.respSrc = lp.src,
                                !.events = @ \o lp.events,
                                !.result = Some(roundTripAnswered)]
    /\ UNCHANGED << execVars, probe, execs >>

NextLogger == RTBegin \/ RTNextError \/ RTNextResponse

SpecLogger == InitLogger /\ [][NextLogger]_vars

(***************************************************************************)
(* Two calls of Do running concurrently on one client.  bodyBytes,         *)
(* lastErr, attempt and req are locals of each call; the client c is only  *)
(* read.  execs[e] holds the locals of call e, src the body stream its     *)
(* caller supplied, seen the body each of its transport calls was given.   *)
(***************************************************************************)
Execs == {1, 2}

\* Values given to WithRetries on the client the two calls share.
PairRetries == {0, 1, 2}

\* Status codes the transport answers the two calls with.
PairStatuses == {200, 500}

\* bodyBytes kept in a field of the client instead of a local of Do.
bufferBodyOnClient(xs, e, b) ==
    [f \in DOMAIN xs |-> [xs[f] EXCEPT !.bodyBytes = Some(b)]]

\* Lines 78 and 83: bodyBytes is a local of call e.
bufferBody(xs, e, b) == [xs EXCEPT ![e].bodyBytes = Some(b)]

\* No single call of Do is being followed.
NoCall ==
    /\ ctxArg = Some("ctx")
    /\ callerReq = [Body |-> NoBody, ctx |-> "reqctx"]
    /\ orig = [present |-> FALSE, data |-> <<>>, fails |-> FALSE,
               off |-> 0, reads |-> 0, closes |-> 0]
    /\ cancelled = {}
    /\ pc = "idle"
    /\ ctx = Nil
    /\ req = pointerTo(callerReq)
    /\ bodyBytes = Nil
    /\ lastErr = Nil
    /\ attempt = 0
    /\ outcomes = <<>>
    /\ seen = <<>>
    /\ callCtxDone = FALSE
    /\ waits = <<>>
    /\ ret = Nil
    /\ cancelAt = Nil

\* The locals of a call of Do on entry, its request carrying the stream src.
Entered(src) ==
    [pc |-> "idle", src |-> src,
     req |-> pointerTo([Body |-> HandleOf(src), ctx |-> "reqctx"]),
     bodyBytes |-> Nil, lastErr |-> Nil, attempt |-> 0, seen |-> <<>>, ret |-> Nil]

InitPair ==
    /\ \E n \in PairRetries :
           c = [Retries |-> n, RetryDelay |-> defaultRetryDelay,
                MaxRetryWait |-> defaultMaxRetryWait]
    /\ NoCall
    /\ probe = IdleProbe
    /\ rt = IdleRT
    /\ \E s1, s2 \in Sources :
           /\ s1.present /\ s2.present /\ s1.data # s2.data
           /\ execs = [e \in Execs |-> Entered(IF e = 1 THEN s1 ELSE s2)]

\* Lines 78-96 in call e.
ExStart(e) ==
    LET x == execs[e]
    IN  /\ x.pc = "idle"
        /\ IF bodyReadFails(x.req, x.src)
           THEN execs' = [execs EXCEPT ![e].src.reads = @ + 1,
                                       ![e].lastErr = Some(0),
                                       ![e].ret = Some(failedBodyRead),
                                       ![e].pc = "done"]
           ELSE execs' = [bufferBody(execs, e, Remaining(x.req.Body, x.src))
                              EXCEPT ![e].src = afterRead(x.req.Body, x.src),
                                     ![e].req = withContext(x.req, effectiveCtx(Some("ctx"), x.req)),
                                     ![e].attempt = 1,
                                     ![e].pc = "top"]
        /\ UNCHANGED << execVars, probe, rt >>

\* Lines 96-102 in call e.
ExInvoke(e) ==
    LET x == execs[e]
        r == restoreBody(x.req, x.bodyBytes)
        b == logRequest(newLogger, r.Body, x.src).body
    IN  /\ x.pc = "top"
        /\ x.attempt <= c.Retries
        /\ execs' = [execs EXCEPT ![e].seen = Append(@, Some(Remaining(b, x.src))),
                                  ![e].req = [r EXCEPT !.Body = Drained(b)],
                                  ![e].pc = "call"]
        /\ UNCHANGED << execVars, probe, rt >>

\* Lines 104-122 in call e, without the wait.
ExError(e) ==
    LET x == execs[e]
        le == recordErr(x.lastErr, Len(x.seen))
    IN  /\ x.pc = "call"
        /\ execs' = IF lastAttempt(x.attempt, c.Retries)
                    THEN [execs EXCEPT ![e].lastErr = le,
                                       ![e].ret = Some(failedAfter(c.Retries, le)),
                                       ![e].pc = "done"]
                    ELSE [execs EXCEPT ![e].lastErr = le, ![e].pc = "wait"]
        /\ UNCHANGED << execVars, probe, rt >>

\* Lines 124-141 in call e, without the wait.
ExResponse(e) ==
    LET x == execs[e]
    IN  /\ x.pc = "call"
        /\ \E st \in PairStatuses :
               execs' = IF retryResponse(st, x.attempt, c.Retries)
                        THEN [execs EXCEPT ![e].pc = "wait"]
                        ELSE [execs EXCEPT ![e].ret = Some(succeeded(Len(x.seen))),
                                           ![e].pc = "done"]
        /\ UNCHANGED << execVars, probe, rt >>

\* Lines 121/137 and 96 in call e: waitBeforeRetry returned, attempt++.
ExWaitOver(e) ==
    LET x == execs[e]
    IN  /\ x.pc = "wait"
        /\ execs' = [execs EXCEPT ![e].attempt = nextAttempt(@), ![e].pc = "top"]
        /\ UNCHANGED << execVars, probe, rt >>

\* Lines 96 and 144-148 in call e.
ExLoopExit(e) ==
    LET x == execs[e]
    IN  /\ x.pc = "top"
        /\ ~(x.attempt <= c.Retries)
        /\ execs' = [execs EXCEPT
                       ![e].ret = Some(IF x.lastErr # Nil
                                       THEN failedAfter(c.Retries, x.lastErr)
                                       ELSE failedUnknown(c.Retries)),
                       ![e].pc = "done"]
        /\ UNCHANGED << execVars, probe, rt >>

NextPair ==
    \E e \in Execs :
        \/ ExStart(e)
        \/ ExInvoke(e)
        \/ ExError(e)
        \/ ExResponse(e)
        \/ ExWaitOver(e)
        \/ ExLoopExit(e)

SpecPair == InitPair /\ [][NextPair]_vars

(***************************************************************************)
(* Vocabulary of the properties.                                           *)
(***************************************************************************)
\* The retry-eligible status codes as the documentation lists them.
RetryEligible(st) == st \in ({408, 429} \cup (500..599))

\* Number of transport invocations made so far.
Calls == Len(seen)

Returned == pc = "done"

\* Do's ctx was cancelled while Do was at position p.
CancelledAt(p) == cancelAt # Nil /\ cancelAt[1].pc = p

\* Call i returned a response with a retry-eligible status.
RetryableAt(i) == ~outcomes[i].err /\ RetryEligible(outcomes[i].status)

\* Call i returned a response with a status that is not retry-eligible.
TerminalAt(i) == ~outcomes[i].err /\ ~RetryEligible(outcomes[i].status)

\* Natural numbers of any size, as bytes, least significant first.
RECURSIVE BigDouble(_, _)
BigDouble(n, carry) ==
    IF n = <<>> THEN (IF carry = 0 THEN <<>> ELSE <<carry>>)
    ELSE LET v == 2 * Head(n) + carry
         IN  <<v % Limb>> \o BigDouble(Tail(n), v \div Limb)

RECURSIVE BigShift(_, _)
\* n * 2^s
BigShift(n, s) == IF s = 0 THEN n ELSE BigShift(BigDouble(n, 0), s - 1)

\* min(d * 2^(a-1), m) over the integers, for durations d >= 0 and m >= 0.
ExactBackoff(d, m, a) ==
    LET p == BigShift([i \in Limbs |-> d[i]], a - 1)
        low == [i \in Limbs |-> p[i]]
    IN  IF (\A i \in 9..Len(p) : p[i] = 0) /\ ~ULessFrom(m, low, 8)
        THEN low ELSE m

BackoffApplied == probe.fn = "backoffDelay" /\ probe.out # <<>>

(***************************************************************************)
(* C1: in every execution whose request carries a body, the body each      *)
(* transport call is given equals the bytes the caller supplied.           *)
(***************************************************************************)
C1_BodyReplayedIdentical ==
    orig.present => \A i \in 1..Len(seen) : seen[i] = Some(orig.data)

\* A two-byte body was handed to the transport three times, after a
\* transport error and after a retry-eligible response.
C1_Witness ==
    /\ orig.present /\ Len(orig.data) = 2
    /\ Len(seen) = 3 /\ Len(outcomes) >= 2
    /\ outcomes[1].err /\ RetryableAt(2)

(***************************************************************************)
(* C2: once Do's ctx is cancelled during a backoff wait, the transport is  *)
(* not invoked again in that execution.                                    *)
(***************************************************************************)
C2_NoInvocationAfterCancelInWait ==
    CancelledAt("wait") => Calls = cancelAt[1].calls

(***************************************************************************)
(* C3: an execution whose ctx was cancelled during a backoff wait returns  *)
(* an error and no response.                                               *)
(***************************************************************************)
C3_CancelInWaitReturnsError ==
    (CancelledAt("wait") /\ Returned) => (ret[1].err # Nil /\ ret[1].resp = Nil)

\* Do returned after its ctx was cancelled during the wait that followed
\* a retry-eligible response.
C3_Witness ==
    /\ CancelledAt("wait") /\ Returned
    /\ RetryableAt(cancelAt[1].attempt)
    /\ ret[1].err # Nil

(***************************************************************************)
(* C4: once Do's ctx is cancelled during the transport call of attempt k,  *)
(* k < maxAttempts, no attempt k+1 is started.                             *)
(***************************************************************************)
C4_NoAttemptAfterCancelInCall ==
    (CancelledAt("call") /\ cancelAt[1].attempt < c.Retries)
        => Calls = cancelAt[1].calls

(***************************************************************************)
(* C5: when every transport call answers with a retry-eligible status, Do  *)
(* returns after exactly maxAttempts calls, with the last response and no  *)
(* error.                                                                  *)
(***************************************************************************)
C5_AllRetryableReturnsLastResponse ==
    (Returned /\ outcomes # <<>> /\ (\A i \in 1..Len(outcomes) : RetryableAt(i)))
        => /\ Calls = c.Retries
           /\ Len(outcomes) = c.Retries
           /\ ret[1] = [resp |-> Some(c.Retries), err |-> Nil]
           /\ ~outcomes[c.Retries].closed

\* Three calls, each answered 500, and Do returned the third response.
C5_Witness ==
    /\ Returned /\ c.Retries = 3 /\ Len(outcomes) = 3
    /\ \A i \in 1..3 : ~outcomes[i].err /\ outcomes[i].status = 500
    /\ ret[1].resp = Some(3)

(***************************************************************************)
(* C6: when calls 1..K-1 answer with retry-eligible statuses and call K    *)
(* with a status that is not retry-eligible, no further call is made and   *)
(* Do returns the response of call K.                                      *)
(***************************************************************************)
C6_FirstTerminalResponseReturned ==
    \A k \in 1..Len(outcomes) :
        ((\A i \in 1..(k - 1) : RetryableAt(i)) /\ TerminalAt(k))
            => /\ Len(outcomes) = k
               /\ Calls = k
               /\ Returned
               /\ ret[1] = [resp |-> Some(k), err |-> Nil]

\* 500, 500, 200: three calls, the third response returned.
C6_Witness ==
    /\ Returned /\ Len(outcomes) = 3 /\ Calls = 3
    /\ RetryableAt(1) /\ RetryableAt(2)
    /\ ~outcomes[3].err /\ outcomes[3].status = 200
    /\ ret[1].resp = Some(3)

(***************************************************************************)
(* C7: when the first call answers with a status that is not               *)
(* retry-eligible, exactly one call is made, whatever maxAttempts is, and  *)
(* that response is returned.                                              *)
(***************************************************************************)
C7_TerminalFirstResponseOneAttempt ==
    (outcomes # <<>> /\ TerminalAt(1))
        => /\ Calls = 1
           /\ attempt = 1
           /\ waits = <<>>
           /\ Returned
           /\ ret[1] = [resp |-> Some(1), err |-> Nil]

\* A 404 on the first of three allowed attempts was returned at once.
C7_Witness ==
    /\ Returned /\ c.Retries = 3 /\ Calls = 1
    /\ outcomes # <<>> /\ ~outcomes[1].err /\ outcomes[1].status = 404
    /\ ret[1].resp = Some(1)

(***************************************************************************)
(* C8: shouldRetry is true exactly for 408, 429 and 500..599.              *)
(***************************************************************************)
C8_ShouldRetryExactly ==
    (probe.fn = "shouldRetry" /\ probe.out # <<>>)
        => (probe.out[1] <=> RetryEligible(probe.arg[1]))

\* shouldRetry(599) was computed and is true.
C8_Witness ==
    /\ probe.fn = "shouldRetry" /\ probe.out # <<>>
    /\ probe.arg[1] = 599 /\ probe.out[1] = TRUE

(***************************************************************************)
(* C9: the delay waited after attempt k equals                             *)
(* min(initialBackoff * 2^(k-1), maxBackoff).                              *)
(***************************************************************************)
C9_DelayIsExactMin ==
    BackoffApplied
        => probe.out[1] = ExactBackoff(probe.arg[1], probe.arg[2], probe.arg[3])

(***************************************************************************)
(* C10: no backoff delay exceeds the configured maximum retry wait.        *)
(***************************************************************************)
C10_DelayNeverExceedsCap ==
    BackoffApplied => ~Greater64(probe.out[1], probe.arg[2])

\* 100ms doubled twice is over the 300ms cap, and the cap was waited.
C10_Witness ==
    /\ BackoffApplied
    /\ probe.arg = <<Ms(100), Ms(300), 3>>
    /\ probe.out[1] = Ms(300)

\* The last transport call made so far returned an error.
LastCallFailed == outcomes # <<>> /\ outcomes[Len(outcomes)].err

\* Reading the caller-supplied body fails.
BodyUnreadable == orig.present /\ orig.fails

(***************************************************************************)
(* C11: when reading the caller-supplied body fails, Do returns the        *)
(* body-read error at once and the transport is never invoked.             *)
(***************************************************************************)
C11_BodyReadErrorNoAttempt ==
    (BodyUnreadable /\ pc # "idle")
        => /\ Returned
           /\ Calls = 0 /\ outcomes = <<>> /\ waits = <<>>
           /\ ret[1].resp = Nil
           /\ ret[1].err # Nil
           /\ ret[1].err[1].msg = "failed to read request body"

\* Do returned on an unreadable body although three attempts were allowed.
C11_Witness ==
    /\ BodyUnreadable /\ Returned /\ c.Retries = 3
    /\ ret[1].err # Nil /\ Calls = 0

(***************************************************************************)
(* C12: when the transport call of the last allowed attempt fails, Do      *)
(* returns no response and an error that wraps the error of that last      *)
(* call, with an attempt count equal to the number of calls made.          *)
(***************************************************************************)
C12_FinalFailureWrapsLastError ==
    (LastCallFailed /\ Len(outcomes) = c.Retries)
        => /\ Returned
           /\ ret[1].resp = Nil
           /\ ret[1].err = Some([msg |-> "request failed after",
                                 attempts |-> Calls,
                                 cause |-> Some(Len(outcomes))])

\* Three calls, the first and the third failed, and Do returned.
C12_Witness ==
    /\ Returned /\ c.Retries = 3 /\ Len(outcomes) = 3
    /\ outcomes[1].err /\ outcomes[3].err
    /\ ret[1].err # Nil

(***************************************************************************)
(* C13: Do returns exactly one of a response and an error.                 *)
(***************************************************************************)
C13_ExactlyOneOfResponseOrError ==
    Returned => (ret # Nil /\ ((ret[1].resp = Nil) # (ret[1].err = Nil)))

\* Do returned a response after a retry.
C13_Witness ==
    /\ Returned /\ waits # <<>>
    /\ ret[1].resp # Nil /\ ret[1].err = Nil

(***************************************************************************)
(* C14: Do returns an error only when reading the body failed or when the  *)
(* transport call of the final attempt failed.                             *)
(***************************************************************************)
C14_ErrorOnlyOnBodyReadOrFinalFailure ==
    (Returned /\ ret[1].err # Nil)
        => \/ BodyUnreadable
           \/ (LastCallFailed /\ Len(outcomes) = c.Retries)

(***************************************************************************)
(* C15: the body of a response that is retried is closed before the next   *)
(* transport call begins.                                                  *)
(***************************************************************************)
C15_RetriedResponseClosedBeforeNextCall ==
    \A i \in 1..Len(outcomes) :
        (~outcomes[i].err /\ Calls > i) => outcomes[i].closed

\* A second call was made after a retry-eligible response, now closed.
C15_Witness ==
    /\ Calls = 2 /\ pc = "call"
    /\ RetryableAt(1) /\ outcomes[1].closed

(***************************************************************************)
(* C16: when Do returns, every response but the returned one has been      *)
(* closed by Do, and the returned one has not.                             *)
(***************************************************************************)
C16_OnlyReturnedResponseLeftOpen ==
    Returned =>
        \A i \in 1..Len(outcomes) :
            ~outcomes[i].err => (outcomes[i].closed <=> ret[1].resp # Some(i))

\* Two retried responses are closed, the third is returned open.
C16_Witness ==
    /\ Returned /\ Len(outcomes) = 3
    /\ RetryableAt(1) /\ RetryableAt(2) /\ ~outcomes[3].err
    /\ outcomes[1].closed /\ outcomes[2].closed /\ ~outcomes[3].closed
    /\ ret[1].resp = Some(3)

(***************************************************************************)
(* C17: attempts are sequential: at most one transport call is in          *)
(* progress, and a call begins only after the previous call has returned   *)
(* and the backoff wait that followed it has ended.                        *)
(***************************************************************************)
C17_AttemptsSequential ==
    /\ Calls = Len(outcomes) \/ Calls = Len(outcomes) + 1
    /\ (pc = "call") <=> (Calls = Len(outcomes) + 1)
    /\ Calls >= 2 =>
           /\ Len(waits) >= Calls - 1
           /\ \A i \in 1..(Calls - 1) : waits[i].woke # "pending"
    /\ pc = "call" => Len(waits) = Calls - 1

\* The third call is in progress after two waits, the second ended by ctx.
C17_Witness ==
    /\ pc = "call" /\ Calls = 3
    /\ waits[1].woke = "timer" /\ waits[2].woke = "ctx"

(***************************************************************************)
(* C18: the caller-supplied body stream is read at most once, however      *)
(* many attempts are made.                                                 *)
(***************************************************************************)
C18_OriginalReadAtMostOnce ==
    /\ orig.reads <= 1
    /\ (orig.present /\ pc = "call") => req.Body.kind = "buf"

\* Three calls were made and the original stream was read once.
C18_Witness ==
    /\ orig.present /\ Calls = 3 /\ orig.reads = 1

(***************************************************************************)
(* C19: with WithRetries(n), a request that fails retryably on every call  *)
(* is re-invoked n times after the initial attempt.                        *)
(***************************************************************************)
C19_RetriedNTimes ==
    (Returned /\ outcomes # <<>>
        /\ \A i \in 1..Len(outcomes) : outcomes[i].err \/ RetryableAt(i))
        => Calls = c.Retries + 1

\* The round trip followed on its own has reached position p.
RTAt(p) == rt.pc # "off" /\ rt.pc = p

\* The round trip handed a response back.
RTAnswered == RTAt("done") /\ rt.result[1].resp

Take(d, n) == SubSeq(d, 1, IF Len(d) < n THEN Len(d) ELSE n)

\* The records logged with message msg.
Logged(msg) == SelectSeq(rt.events, LAMBDA e : e.msg = msg)

\* The round trip logs bodies and has handed on the request.
CapturedRequest ==
    rt.pc # "off" /\ rt.l.logBodies /\ rt.pc # "idle" /\ rt.reqSrc.present

\* The round trip logs bodies and has handed back a response.
CapturedResponse ==
    rt.pc # "off" /\ rt.l.logBodies /\ RTAnswered /\ rt.respSrc.present

(***************************************************************************)
(* C21: with body logging on, the logged body is the first                 *)
(* min(S, maxBodySize) bytes of a body of S bytes, and the stream handed   *)
(* onward still yields S bytes.                                            *)
(***************************************************************************)
C21_LoggedBodyIsCappedPrefix ==
    /\ (CapturedRequest /\ ~rt.reqSrc.fails)
           => /\ Logged("http request body")
                    = <<Event("DEBUG", "http request body",
                              Some(Take(rt.reqSrc.data, rt.l.maxBodySize)))>>
              /\ Len(rt.given[1].data) = Len(rt.reqSrc.data)
    /\ (CapturedResponse /\ ~rt.respSrc.fails)
           => /\ Logged("http response body")
                    = <<Event("DEBUG", "http response body",
                              Some(Take(rt.respSrc.data, rt.l.maxBodySize)))>>
              /\ Len(ReadOf(rt.respBody, rt.respSrc)[1].data) = Len(rt.respSrc.data)

\* A response body of two bytes was logged as its first byte only.
C21_Witness ==
    /\ CapturedResponse /\ ~rt.respSrc.fails
    /\ Len(rt.respSrc.data) = 2 /\ rt.l.maxBodySize = 1
    /\ Len(Logged("http response body")[1].body[1]) = 1
    /\ Len(ReadOf(rt.respBody, rt.respSrc)[1].data) = 2

\* The source stream o has not been read, closed or replaced behind handle s.
Untouched(s, o) ==
    s = HandleOf(o) /\ o.off = 0 /\ o.reads = 0 /\ o.closes = 0

(***************************************************************************)
(* C22: with body logging off, the round tripper reads neither body, logs  *)
(* no body record, hands on the streams it was given, and logs only the    *)
(* completion record or the error record.                                  *)
(***************************************************************************)
C22_NoCaptureLeavesStreamsAlone ==
    (rt.pc # "off" /\ ~rt.l.logBodies) =>
        /\ Untouched(rt.reqBody, rt.reqSrc)
        /\ Untouched(rt.respBody, rt.respSrc)
        /\ rt.pc # "idle" => rt.given = ReadOf(HandleOf(rt.reqSrc), rt.reqSrc)
        /\ rt.events =
               IF rt.pc # "done" THEN <<>>
               ELSE IF rt.result[1].resp
                    THEN <<Event("INFO", "http request completed", Nil)>>
                    ELSE <<Event("ERROR", "http request failed", Nil)>>

\* A request and a response, both with two-byte bodies, went through a
\* round tripper that does not log bodies.
C22_Witness ==
    /\ RTAnswered /\ ~rt.l.logBodies
    /\ rt.reqSrc.present /\ Len(rt.reqSrc.data) = 2
    /\ rt.respSrc.present /\ Len(rt.respSrc.data) = 2
    /\ rt.respBody.kind = "orig"

(***************************************************************************)
(* C23: when the transport returns an error, RoundTrip returns no response *)
(* and that very error, logs one error record and no completion record,    *)
(* and has called the transport once.                                      *)
(***************************************************************************)
C23_TransportErrorPropagatedUnchanged ==
    (RTAt("done") /\ rt.nextErr # Nil) =>
        /\ rt.result = Some([resp |-> FALSE, err |-> rt.nextErr])
        /\ Len(Logged("http request failed")) = 1
        /\ Logged("http request failed")[1].level = "ERROR"
        /\ Logged("http request completed") = <<>>
        /\ rt.nextCalls = 1

\* The transport timed out under a round tripper that had logged the
\* request body.
C23_Witness ==
    /\ RTAt("done") /\ rt.nextErr = Some([text |-> "timeout", wraps |-> Nil])
    /\ rt.l.logBodies /\ Len(Logged("http request body")) = 1
    /\ ~rt.result[1].resp

\* The number of records about the request body, about the response body,
\* of completion and of error.
RequestBodyRecords ==
    Len(Logged("http request body")) + Len(Logged("failed to read request body"))

ResponseBodyRecords ==
    Len(Logged("http response body")) + Len(Logged("failed to read response body"))

CompletionRecords == Len(Logged("http request completed"))

ErrorRecords == Len(Logged("http request failed"))

(***************************************************************************)
(* C24: one RoundTrip call logs at most one record about each body (one    *)
(* exactly for a body it captures), exactly one record of completion or    *)
(* of error, and reads each body at most once.                             *)
(***************************************************************************)
C24_OneRecordPerCategory ==
    rt.pc # "off" =>
        /\ RequestBodyRecords <= 1 /\ ResponseBodyRecords <= 1
        /\ CompletionRecords <= 1 /\ ErrorRecords <= 1
        /\ CapturedRequest => RequestBodyRecords = 1
        /\ CapturedResponse => ResponseBodyRecords = 1
        /\ rt.pc = "done" => CompletionRecords + ErrorRecords = 1
        /\ Len(rt.events)
               = RequestBodyRecords + ResponseBodyRecords
                     + CompletionRecords + ErrorRecords
        /\ rt.reqSrc.reads <= 1 /\ rt.respSrc.reads <= 1

\* Both bodies were captured and read once each: three records in all.
C24_Witness ==
    /\ CapturedRequest /\ CapturedResponse
    /\ rt.reqSrc.reads = 1 /\ rt.respSrc.reads = 1
    /\ RequestBodyRecords = 1 /\ ResponseBodyRecords = 1 /\ CompletionRecords = 1

\* What a consumer would have read from source o had nobody read it before.
Unlogged(o) == ReadOf(HandleOf(o), [o EXCEPT !.off = 0])

(***************************************************************************)
(* C25: when reading the request body for logging fails, the round         *)
(* tripper logs a warning, attaches an empty readable stream, still calls  *)
(* the transport, and returns no error of its own.                         *)
(***************************************************************************)
C25_RequestReadFailureStillForwards ==
    (CapturedRequest /\ rt.reqSrc.fails) =>
        /\ Logged("failed to read request body")
               = <<Event("WARN", "failed to read request body", Nil)>>
        /\ rt.reqBody = NewReader(<<>>)
        /\ rt.given = Some([data |-> <<>>, err |-> FALSE])
        /\ rt.nextCalls = 1
        /\ rt.pc = "done" => rt.result[1].err = rt.nextErr

\* A request body failing after one byte went through and was answered.
C25_Witness ==
    /\ CapturedRequest /\ rt.reqSrc.fails /\ Len(rt.reqSrc.data) = 1
    /\ RTAnswered /\ rt.result[1].err = Nil

(***************************************************************************)
(* C26: a read failure while logging a body leaves the next consumer with  *)
(* the bytes and the read outcome it would have had without logging.       *)
(***************************************************************************)
C26_ReadFailureLeavesExchangeUnaffected ==
    /\ (CapturedRequest /\ rt.reqSrc.fails) => rt.given = Unlogged(rt.reqSrc)
    /\ (CapturedResponse /\ rt.respSrc.fails)
           => ReadOf(rt.respBody, rt.respSrc) = Unlogged(rt.respSrc)

\* Every transport call of call e was given the bytes of e's own body, and
\* e's buffer holds nothing else.
OwnBody(e) ==
    /\ execs[e].bodyBytes \in {Nil, Some(execs[e].src.data)}
    /\ \A i \in 1..Len(execs[e].seen) : execs[e].seen[i] = Some(execs[e].src.data)

(***************************************************************************)
(* C27: of two calls of Do running concurrently on one client with         *)
(* different bodies, each transport call is given the body of its own      *)
(* call, and a step of one call leaves the other call's bodyBytes,         *)
(* attempt and lastErr as they were.                                       *)
(***************************************************************************)
C27_ConcurrentCallsKeepTheirOwnState ==
    [][ /\ \A e \in Execs : OwnBody(e)'
        /\ \E e \in Execs : \A f \in Execs \ {e} : execs'[f] = execs[f] ]_vars

\* Both calls are inside their second transport call at the same time.
C27_Witness ==
    /\ execs # NoExecs
    /\ \A e \in Execs :
           /\ execs[e].pc = "call" /\ execs[e].attempt = 2
           /\ Len(execs[e].seen) = 2 /\ OwnBody(e)
    /\ execs[1].bodyBytes # execs[2].bodyBytes

\* The number of transport calls the configuration allows.
AttemptBudget == IF c.Retries > 0 THEN c.Retries ELSE 0

(***************************************************************************)
(* C28: when every transport call returns, every execution of Do           *)
(* eventually returns a result, cancelled or not, after at most            *)
(* maxAttempts transport calls.                                            *)
(***************************************************************************)
C28_DoEventuallyReturns ==
    /\ <>(Returned /\ ret # Nil)
    /\ [](Calls <= AttemptBudget)

\* Do returned after using every attempt, its context cancelled on the way.
C28_Witness ==
    /\ Returned /\ ret # Nil
    /\ Calls = AttemptBudget /\ Calls = MaxRetries
    /\ cancelAt # Nil

\* Do was called with a nil ctx and has passed line 94.
NilCtxBound == ctxArg = Nil /\ ctx # Nil

(***************************************************************************)
(* C29: Do called with a nil ctx is bound to the request's own context:    *)
(* the request handed to the transport carries it, a backoff wait is cut   *)
(* short only by it, and transport calls begun after its cancellation      *)
(* fail.                                                                   *)
(***************************************************************************)
C29_NilCtxBindsRequestContext ==
    NilCtxBound =>
        /\ ctx = Some(callerReq.ctx) /\ req.ctx = callerReq.ctx
        /\ \A i \in 1..Len(waits) :
               waits[i].woke = "ctx" => callerReq.ctx \in cancelled
        /\ callerReq.ctx \in cancelled
               => /\ cancelAt # Nil
                  /\ \A i \in 1..Len(outcomes) :
                         i > cancelAt[1].calls => outcomes[i].err

\* With a nil ctx, the request's context was cancelled during a backoff
\* wait, the wait was cut short, and the next transport call failed.
C29_Witness ==
    /\ NilCtxBound /\ Returned /\ CancelledAt("wait")
    /\ waits[Len(waits)].woke = "ctx"
    /\ Calls > cancelAt[1].calls /\ outcomes[Calls].err

\* Do returned after c.Retries >= 2 transport calls, each of which failed
\* in a retryable way: an error or a retry-eligible response.
Exhausted ==
    /\ Returned /\ c.Retries >= 2 /\ Calls = c.Retries /\ Len(outcomes) = Calls
    /\ \A i \in 1..Calls : outcomes[i].err \/ RetryableAt(i)

(***************************************************************************)
(* C30: when all attempts are used up on retryable failures of mixed       *)
(* kinds, the last attempt alone decides: a retry-eligible response after  *)
(* earlier errors is returned with no error; an error after earlier        *)
(* retry-eligible responses is returned wrapped, with no response.         *)
(***************************************************************************)
C30_LastAttemptDecides ==
    Exhausted =>
        /\ (RetryableAt(Calls) /\ \E i \in 1..(Calls - 1) : outcomes[i].err)
               => /\ ret = Some([resp |-> Some(Calls), err |-> Nil])
                  /\ ~outcomes[Calls].closed
        /\ (outcomes[Calls].err /\ \E i \in 1..(Calls - 1) : RetryableAt(i))
               => /\ ret[1].resp = Nil
                  /\ ret[1].err = Some([msg |-> "request failed after",
                                        attempts |-> c.Retries,
                                        cause |-> Some(Calls)])

\* Three attempts: an error, a retry-eligible response, an error again.
C30_Witness ==
    /\ Exhausted /\ Calls = 3
    /\ outcomes[1].err /\ RetryableAt(2) /\ outcomes[3].err
    /\ ret[1].resp = Nil

\* Three attempts: a retry-eligible response, an error, then a
\* retry-eligible response, which is returned.
C30_WitnessResponse ==
    /\ Exhausted /\ Calls = 3
    /\ RetryableAt(1) /\ outcomes[2].err /\ RetryableAt(3)
    /\ ret[1].resp = Some(3)

(***************************************************************************)
(* C31: when no context is cancelled, a transport error on attempt         *)
(* k < maxAttempts is absorbed: Do has not returned on it, and goes on     *)
(* to attempt k+1.                                                         *)
(***************************************************************************)
C31_EarlyTransportErrorAbsorbed ==
    cancelled = {} =>
        \A k \in 1..Len(outcomes) :
            (outcomes[k].err /\ k < c.Retries)
                => \/ Calls > k
                   \/ Calls = k /\ ret = Nil /\ pc \in {"wait", "top"}

\* With no cancellation, the first call failed and the second call's
\* response was returned.
C31_Witness ==
    /\ cancelled = {} /\ Returned
    /\ Calls = 2 /\ outcomes[1].err /\ ret = Some(succeeded(2))

(***************************************************************************)
(* C32 as stated: in every execution the number of backoff waits equals    *)
(* the number of transport calls minus one.                                *)
(***************************************************************************)
C32_WaitsAreCallsMinusOne ==
    Returned => Len(waits) = Calls - 1

(***************************************************************************)
(* C32, amended: one backoff wait lies between any two consecutive         *)
(* transport calls and none follows the last one; an execution that        *)
(* returns has waited once less than it called the transport, and not at   *)
(* all when it never called it.                                            *)
(***************************************************************************)
C32_OneWaitBetweenCalls ==
    /\ pc = "call" => Len(waits) = Calls - 1
    /\ pc = "wait" => Len(waits) = Calls
    /\ Returned =>
           /\ Len(waits) = (IF Calls = 0 THEN 0 ELSE Calls - 1)
           /\ \A i \in 1..Len(waits) : waits[i].woke # "pending"

\* Do returned after three transport calls and two waits.
C32_Witness ==
    Returned /\ Calls = 3 /\ Len(waits) = 2 /\ waits[2].woke = "timer"

(***************************************************************************)
(* C33: the attempt number of the i-th transport call is i, it never       *)
(* exceeds maxAttempts, and the transport is called at most maxAttempts    *)
(* times.                                                                  *)
(***************************************************************************)
C33_AttemptsNumberedUpToMax ==
    /\ pc \in {"call", "wait"} => (attempt = Calls /\ attempt \in 1..c.Retries)
    /\ (pc = "top" /\ attempt <= c.Retries) => attempt = Calls + 1
    /\ Calls <= AttemptBudget

\* The last allowed attempt of the largest configuration is under way.
C33_Witness ==
    pc = "call" /\ c.Retries = MaxRetries /\ attempt = MaxRetries /\ Calls = MaxRetries

(***************************************************************************)
(* C34: whenever the request carries a body, Do has closed the             *)
(* caller-supplied stream exactly once when it returns, also when reading  *)
(* the stream failed.                                                      *)
(***************************************************************************)
C34_CallerBodyClosedOnce ==
    (Returned /\ orig.present) => orig.closes = 1

(***************************************************************************)
(* C35: with maxAttempts <= 0, Do calls the transport zero times and       *)
(* returns an error, having consumed and closed the request body.          *)
(***************************************************************************)
C35_NoAttemptsAllowedFailsAfterClosingBody ==
    (c.Retries <= 0 /\ Returned) =>
        /\ Calls = 0
        /\ ret[1].resp = Nil /\ ret[1].err # Nil
        /\ orig.present
               => (orig.reads = 1 /\ orig.off = Len(orig.data) /\ orig.closes = 1)

(***************************************************************************)
(* C36: for positive initialBackoff and maxBackoff and every attempt       *)
(* number, beyond 64 too, the delay computed in wrapping 64-bit signed     *)
(* arithmetic is never negative and never below                            *)
(* min(initialBackoff, maxBackoff).                                        *)
(***************************************************************************)
C36_DelayNeverBelowFloor ==
    BackoffApplied =>
        /\ ~IsNeg(probe.out[1])
        /\ ~Less64(probe.out[1],
                   IF Less64(probe.arg[1], probe.arg[2])
                   THEN probe.arg[1] ELSE probe.arg[2])

(***************************************************************************)
(* C37: Do never modifies the caller's request: it still refers to the     *)
(* original body stream, which Do has read, and to its own context; the    *)
(* context binding and the body replacement go to a private copy.          *)
(***************************************************************************)
C37_CallerRequestUntouched ==
    /\ callerReq = [Body |-> HandleOf(orig), ctx |-> "reqctx"]
    /\ pc \notin {"idle"} => (ctx # Nil => req.own)
    /\ (Returned /\ orig.present) => orig.reads = 1

\* Do returned after binding another context and replacing the body on
\* two attempts; the caller's request is as it was handed in.
C37_Witness ==
    /\ Returned /\ Calls >= 2 /\ orig.present /\ orig.data # <<>>
    /\ ctxArg # Nil /\ req.ctx = "ctx" /\ req.Body.kind = "buf"
    /\ callerReq.Body.kind = "orig" /\ callerReq.ctx = "reqctx"

\* Do stands at the loop head with the loop condition false: the code after
\* the loop is about to run.
PastLoop == pc = "top" /\ ~(attempt <= c.Retries)

(***************************************************************************)
(* C38: with maxAttempts >= 1 the code after the attempt loop is never     *)
(* reached: an execution that enters the loop returns from inside it, in   *)
(* iteration maxAttempts at the latest, and never with the 'unknown error' *)
(* result.                                                                 *)
(***************************************************************************)
C38_PostLoopUnreachable ==
    c.Retries >= 1 =>
        /\ ~PastLoop
        /\ attempt <= c.Retries
        /\ Returned => (ret[1].err # Nil => ret[1].err[1].msg # "unknown error")
        /\ (Returned /\ ctx # Nil) => (Calls >= 1 /\ attempt = Calls)

\* Do returned from inside the loop, in its last iteration, with the
\* wrapped error of that iteration.
C38_Witness ==
    /\ c.Retries = MaxRetries /\ Returned /\ attempt = c.Retries
    /\ LastCallFailed /\ ret = Some(failedAfter(c.Retries, Some(Calls)))

====
